---- MODULE Spec2Model ----
(***************************************************************************)
(* A model of the t9nKit translation engine (class T9nKit of               *)
(* core/translator.ts with the helpers of core/helpers.ts): key parsing,   *)
(* nested-path lookup, the namespace registry and the lazy-load            *)
(* coordinator with its in-flight promises.                                *)
(*                                                                         *)
(* JavaScript strings are sequences of one-character strings, so that      *)
(* indexOf, slice, split, startsWith and template concatenation are        *)
(* computed as the code computes them.                                     *)
(***************************************************************************)
EXTENDS Integers, Sequences, FiniteSets, Bags, TLC

VARIABLES
    config,           \* this.config: translations, defaultLanguage, defaultNamespace
    currentLanguage,  \* this.currentLanguage
    namespaceStore,   \* this.namespaceStore: name -> (language -> tree)
    loaders,          \* this.loaders: name -> loader
    loadingPromises,  \* this.loadingPromises: cacheKey -> promise
    loadedSet,        \* this.loadedSet: set of cacheKeys
    promises,         \* the promises of loadNamespace's inner async function, per cacheKey
    calls,            \* the loadNamespace calls made so far (a bag), with what each returned
    sharedWithConfig, \* the names whose record in namespaceStore is config.namespaces' own object
    query             \* the last query (translate, interpolate, ..) made of the present state

vars == <<config, currentLanguage, namespaceStore, loaders, loadingPromises,
          loadedSet, promises, calls, sharedWithConfig, query>>

----------------------------------------------------------------------------
(* Bounds of the model. *)

\* loadNamespace calls in one behaviour
MaxCalls == 3

----------------------------------------------------------------------------
(* JavaScript values. *)

Str(t) == [kind |-> "string", text |-> t]
Obj(f) == [kind |-> "object", fields |-> f]
Num(n) == [kind |-> "number", num |-> n]
Bool(b) == [kind |-> "boolean", bool |-> b]
\* a translation function (params) => string, by what a call of it does:
\* return a string or throw
Fn(result) == [kind |-> "function", result |-> result]
Undefined == [kind |-> "undefined"]
Null == [kind |-> "null"]

\* the empty object {}
EmptyFields == [k \in {} |-> Undefined]

\* an absent optional string argument (lang?: T): no string is equal to it
NoLang == <<"(undefined)">>

\* parseKey's namespace: null
NullNamespace == <<"(null)">>

\* an absent params argument; otherwise params is the sequence of the object's
\* entries [name, value], in insertion order (Object.entries)
NoParams == <<[name |-> <<"(undefined)">>, value |-> [kind |-> "undefined"]]>>

\* no query was made since the engine last changed
NoQuery == [op |-> "none"]

----------------------------------------------------------------------------
(* Strings of the model: language codes, namespace names, path segments.   *)

En == <<"e", "n">>
Es == <<"e", "s">>
Fr == <<"f", "r">>

NsAuth == <<"a">>
NsLazy == <<"z">>
NsEmpty == <<>>
NsUnknown == <<"u">>

SegHello == <<"h">>
SegNav == <<"n">>
SegHome == <<"m">>
SegKey == <<"k">>
SegMissing == <<"x">>
SegNull == <<"w">>

PathNavHome == <<"n", ".", "m">>

TxtHello == <<"H", "i">>
TxtHola == <<"H", "o">>
TxtHome == <<"H", "m">>
TxtLogin == <<"L", "i">>
TxtEntrar == <<"E", "n">>
TxtLazyEn == <<"Z", "e">>
TxtLazyEs == <<"Z", "s">>

SegOne == <<"o", "n", "e">>
SegOther == <<"o", "t", "h", "e", "r">>
SegZero == <<"z", "e", "r", "o">>
SegCount == <<"c", "o", "u", "n", "t">>

SegItems == <<"p">>
SegItemsZero == <<"q">>
SegItemsEmptyZero == <<"e">>
SegSteps == <<"g">>
SegFn == <<"f">>
SegName == <<"n">>

TxtGreet == <<"H", "{", "n", "}">>
TxtOneItem == <<"1", "i">>
TxtCountItems == <<"{", "c", "o", "u", "n", "t", "}", "i">>
TxtNoItems == <<"n", "o">>
TxtFirst == <<"A">>
TxtSecond == <<"B">>
TxtFromFn == <<"F">>
TxtFrench == <<"F", "r">>
TxtLogout == <<"L", "o">>
TxtValue == <<"V">>

----------------------------------------------------------------------------
(* core/helpers.ts and parseKey. *)

\* String.prototype.indexOf(ch): 0-based, -1 when absent
IndexOf(s, ch) ==
    IF \E i \in 1..Len(s) : s[i] = ch
    THEN (CHOOSE i \in 1..Len(s) : s[i] = ch /\ \A j \in 1..(i - 1) : s[j] # ch) - 1
    ELSE -1

\* String.prototype.startsWith
StartsWith(s, prefix) ==
    /\ Len(prefix) <= Len(s)
    /\ SubSeq(s, 1, Len(prefix)) = prefix

\* String.prototype.split(sep) for a one-character separator
RECURSIVE Split(_, _)
Split(s, sep) ==
    LET i == IndexOf(s, sep)
    IN IF i = -1
       THEN <<s>>
       ELSE <<SubSeq(s, 1, i)>> \o Split(SubSeq(s, i + 2, Len(s)), sep)

ParseKey(key) ==
    LET colonIndex == IndexOf(key, ":")
    IN IF colonIndex = -1
       THEN [namespace |-> NullNamespace, path |-> key]
       ELSE [namespace |-> SubSeq(key, 1, colonIndex),
             path |-> SubSeq(key, colonIndex + 2, Len(key))]

\* a JavaScript string used as a condition: null, undefined and "" are falsy
Truthy(s) == s # NullNamespace /\ s # NoLang /\ s # <<>>

Digits == <<"0", "1", "2", "3", "4", "5", "6", "7", "8", "9">>

\* the value of a canonical array index ("0", "1", .., no leading zero), else -1
ArrayIndex(seg) ==
    IF Len(seg) = 1 /\ (\E d \in 1..10 : Digits[d] = seg[1])
    THEN (CHOOSE d \in 1..10 : Digits[d] = seg[1]) - 1
    ELSE -1

\* current?.[key]: own properties of an object, the characters and the length
\* of a string, undefined on undefined
Prop(current, key) ==
    CASE current.kind = "object" ->
            IF key \in DOMAIN current.fields THEN current.fields[key] ELSE Undefined
      [] current.kind = "string" ->
            IF ArrayIndex(key) >= 0 /\ ArrayIndex(key) < Len(current.text)
            THEN Str(<<current.text[ArrayIndex(key) + 1]>>)
            ELSE IF key = <<"l", "e", "n", "g", "t", "h">>
                 THEN Num(Len(current.text))
                 ELSE Undefined
      [] OTHER -> Undefined

RECURSIVE Walk(_, _)
Walk(current, segments) ==
    IF segments = <<>>
    THEN current
    ELSE Walk(Prop(current, Head(segments)), Tail(segments))

GetNestedValue(obj, path) == Walk(obj, Split(path, "."))

CoalesceSwapped(a, b) == IF b = Undefined THEN a ELSE b

\* a ?? b: b when a is undefined or null
Coalesce(a, b) == IF a = Undefined \/ a = Null THEN b ELSE a

----------------------------------------------------------------------------
(* The engine's data. *)

\* A name every plain object inherits from Object.prototype, and the value
\* found under it: the function Object.
Constructor == <<"c", "o", "n", "s", "t", "r", "u", "c", "t", "o", "r">>
InheritedNames == {Constructor}
ObjectFunction == Fn(Obj(EmptyFields))

\* record[lang] of a Record<T, ...>, a plain object: the entry of the
\* language, what the object inherits under that name, else undefined
Lookup(byLang, lang) ==
    IF lang \in DOMAIN byLang THEN byLang[lang]
    ELSE IF lang \in InheritedNames THEN ObjectFunction
    ELSE Undefined

CacheKey(namespace, targetLang) == namespace \o <<":">> \o targetLang

TargetLang(lang) == IF Truthy(lang) THEN lang ELSE currentLanguage

\* a function without the key k (Map.prototype.delete)
Without(f, k) == [x \in DOMAIN f \ {k} |-> f[x]]

SpreadExistingWins(a, b) == Obj(a.fields @@ b.fields)

\* { ...a, ...b }: the keys of both, b's value on a collision
Spread(a, b) == Obj(b.fields @@ a.fields)

\* The configurations the engine is constructed from.
TopLevel ==
    (En :> Obj((SegHello :> Str(TxtHello)) @@
               (SegNav :> Obj(SegHome :> Str(TxtHome))))) @@
    (Es :> Obj(SegHello :> Str(TxtHola)))

AuthSeed ==
    (En :> Obj(EmptyFields)) @@
    (Es :> Obj(SegHello :> Str(TxtEntrar)))

ConfigDefaultNs ==
    [translations |-> TopLevel, defaultLanguage |-> Es,
     defaultNamespace |-> NsAuth, namespaces |-> (NsAuth :> AuthSeed),
     lazyNamespaces |-> (NsLazy :> "fetch")]

Configs == {ConfigDefaultNs}

\* config.defaultNamespace left out
NoDefaultNamespace == <<"(undefined)">>

\* { one: "1i", other: "{count}i" }, the same with a zero template, and with
\* an empty zero template
Items == Obj((SegOne :> Str(TxtOneItem)) @@ (SegOther :> Str(TxtCountItems)))
ItemsZero == Obj((SegZero :> Str(TxtNoItems)) @@ Items.fields)
ItemsEmptyZero == Obj((SegZero :> Str(<<>>)) @@ Items.fields)

\* a nested group with a key named "one": { one: "A", k: "B" }
Steps == Obj((SegOne :> Str(TxtFirst)) @@ (SegKey :> Str(TxtSecond)))

\* A configuration without default namespace whose top-level dictionary holds
\* a template, plural values, a nested group, a translation function and a
\* null leaf, and
\* whose namespace has a tree for a language the dictionary does not have.
RichTopLevel ==
    (En :> Obj((SegHello :> Str(TxtGreet)) @@ (SegItems :> Items) @@
               (SegItemsZero :> ItemsZero) @@ (SegItemsEmptyZero :> ItemsEmptyZero) @@
               (SegSteps :> Steps) @@ (SegFn :> Fn(Str(TxtFromFn))) @@
               (SegNull :> Null))) @@
    (Es :> Obj(SegHello :> Str(TxtHola)))

RichAuth ==
    (En :> Obj(SegHello :> Str(TxtLogin))) @@
    (Fr :> Obj(SegHello :> Str(TxtFrench)))

ConfigRich ==
    [translations |-> RichTopLevel, defaultLanguage |-> En,
     defaultNamespace |-> NoDefaultNamespace, namespaces |-> (NsAuth :> RichAuth),
     lazyNamespaces |-> [k \in {} |-> "fetch"]]

TranslateConfigs == {ConfigDefaultNs, ConfigRich}

\* What a call supplies.
NamespaceNames == {NsEmpty, NsLazy}
Languages == {En, Es}
LanguageArgs == {En, Es, Fr}
LoadLangArgs == {NoLang, En}
AddNames == {NsLazy}
AddInputs == {(En :> Obj(SegHello :> Str(TxtLogin)))}

\* What the calls of the translation queries supply.
TranslateLanguageArgs == LanguageArgs \cup {Constructor}
TranslateAddNames == {NsAuth, NsLazy}
TranslateAddInputs ==
    {(En :> Obj((SegKey :> Str(TxtLogout)) @@ (SegHello :> Str(TxtLogout)))),
     (Es :> Obj(SegKey :> Str(TxtLazyEs)))}
TranslateRemoveNames == {NsAuth}
TranslateKeys ==
    {SegHello, PathNavHome, SegNav, SegMissing, SegKey,
     SegItems, SegItemsZero, SegItemsEmptyZero, SegSteps, SegFn, SegNull,
     PathNavHome \o <<".">> \o SegMissing, PathNavHome \o <<".", "0">>,
     PathNavHome \o <<".", "l", "e", "n", "g", "t", "h">>,
     NsAuth \o <<":">> \o SegHello, NsAuth \o <<":">> \o SegKey,
     NsLazy \o <<":">> \o SegKey, NsUnknown \o <<":">> \o SegHello}
TranslateLangs == {NoLang, En, Es, Fr}
CountOf(n) == [name |-> SegCount, value |-> Num(n)]
NameParam == [name |-> SegName, value |-> Str(TxtValue)]
TranslateParams ==
    {NoParams, <<>>, <<CountOf(0)>>, <<CountOf(1)>>, <<CountOf(2)>>, <<NameParam>>,
     <<NameParam, CountOf(1)>>, <<[name |-> <<"(">>, value |-> Str(TxtValue)]>>}

\* The loaders: "fetch" returns a promise that later resolves with the tree
\* of the language or rejects; "throws" is a plain function that throws when
\* it is called.
LoaderIds == {"fetch", "throws"}

LoaderTree(lang) ==
    IF lang = En
    THEN Obj((SegKey :> Str(TxtLazyEn)) @@ (SegHello :> Str(TxtLazyEn)))
    ELSE Obj(SegKey :> Str(TxtLazyEs))

----------------------------------------------------------------------------
(* The operations of class T9nKit. *)

Init ==
    /\ config \in Configs
    /\ currentLanguage = config.defaultLanguage
    /\ namespaceStore = config.namespaces
    /\ loaders = config.lazyNamespaces
    /\ loadingPromises = [k \in {} |-> 0]
    /\ loadedSet = {}
    /\ promises = [k \in {} |-> <<>>]
    /\ calls = EmptyBag
    /\ sharedWithConfig = DOMAIN config.namespaces
    /\ query = NoQuery

SetLanguage(lang) ==
    /\ currentLanguage' =
          IF Lookup(config.translations, lang) # Undefined THEN lang ELSE currentLanguage
    /\ query' = NoQuery
    /\ UNCHANGED <<config, namespaceStore, loaders, loadingPromises, loadedSet,
                   promises, calls, sharedWithConfig>>

\* a set in place of the merge
AddedToReplacing(store, name, translations) == (name :> translations) @@ store

\* the registry after addNamespace(name, translations)
AddedTo(store, name, translations) ==
    IF name \in DOMAIN store
    THEN LET existing == store[name]
             merged == [lang \in DOMAIN existing \cup DOMAIN translations |->
                          IF lang \notin DOMAIN translations
                          THEN existing[lang]
                          ELSE IF lang \in DOMAIN existing
                               THEN Spread(existing[lang], translations[lang])
                               ELSE translations[lang]]
         IN [store EXCEPT ![name] = merged]
    ELSE (name :> translations) @@ store

\* The constructor stores the records of config.namespaces themselves, so the
\* merge of addNamespace into such a record (existing[lang] = ...) is a write
\* to the configuration object too.
ConfigAfterAdd(cfg, shared, store, name) ==
    IF name \in shared THEN [cfg EXCEPT !.namespaces[name] = store[name]] ELSE cfg

AddNamespace(name, translations) ==
    /\ namespaceStore' = AddedTo(namespaceStore, name, translations)
    /\ config' = ConfigAfterAdd(config, sharedWithConfig, namespaceStore', name)
    /\ query' = NoQuery
    /\ UNCHANGED <<currentLanguage, loaders, loadingPromises, loadedSet,
                   promises, calls, sharedWithConfig>>

HasNamespace(name) == name \in DOMAIN namespaceStore \/ name \in DOMAIN loaders

GetNamespaces == DOMAIN namespaceStore

\* The number of loadNamespace calls made so far for a namespace.
CallsFor(name) ==
    BagCardinality([c \in {c \in BagToSet(calls) : c.namespace = name} |->
                       CopiesIn(c, calls)])

\* Bookkeeping of the model, not of the program: a load that is still running
\* as removeNamespace(name) is called records how many loadNamespace calls for
\* the namespace had been made by then (removedAfter; 0: never removed under),
\* until it settles.
RemovedUnder(loads, name) ==
    LET made == CallsFor(name)
    IN [key \in DOMAIN loads |->
          [n \in 1..Len(loads[key]) |->
              IF loads[key][n].namespace = name /\ loads[key][n].state = "pending"
              THEN [loads[key][n] EXCEPT !.removedAfter = made]
              ELSE loads[key][n]]]

\* a removal that leaves the Loaded markers in place
RemoveNamespaceKeepsMarkers(name) ==
    /\ namespaceStore' = Without(namespaceStore, name)
    /\ sharedWithConfig' = sharedWithConfig \ {name}
    /\ query' = NoQuery
    /\ UNCHANGED <<config, currentLanguage, loaders, loadingPromises, loadedSet,
                   promises, calls>>

\* a removal that forgets the loader with the data
RemoveNamespaceAndLoader(name) ==
    /\ namespaceStore' = Without(namespaceStore, name)
    /\ loadedSet' = {key \in loadedSet : ~StartsWith(key, name \o <<":">>)}
    /\ loaders' = Without(loaders, name)
    /\ sharedWithConfig' = sharedWithConfig \ {name}
    /\ query' = NoQuery
    /\ UNCHANGED <<config, currentLanguage, loadingPromises, promises, calls>>

RemoveNamespace(name) ==
    /\ namespaceStore' = Without(namespaceStore, name)
    /\ loadedSet' = {key \in loadedSet : ~StartsWith(key, name \o <<":">>)}
    /\ sharedWithConfig' = sharedWithConfig \ {name}
    /\ query' = NoQuery
    /\ UNCHANGED <<config, currentLanguage, loaders, loadingPromises, promises, calls>>

\* removeNamespace with the loads that are running noting the removal
RemoveNamespaceDuringLoads(name) ==
    /\ namespaceStore' = Without(namespaceStore, name)
    /\ loadedSet' = {key \in loadedSet : ~StartsWith(key, name \o <<":">>)}
    /\ sharedWithConfig' = sharedWithConfig \ {name}
    /\ query' = NoQuery
    /\ promises' = RemovedUnder(promises, name)
    /\ UNCHANGED <<config, currentLanguage, loaders, loadingPromises, calls>>

RegisterLoader(namespace, loader) ==
    /\ loaders' = (namespace :> loader) @@ loaders
    /\ query' = NoQuery
    /\ UNCHANGED <<config, currentLanguage, namespaceStore, loadingPromises,
                   loadedSet, promises, calls, sharedWithConfig>>

IsNamespaceLoaded(namespace, lang) ==
    CacheKey(namespace, TargetLang(lang)) \in loadedSet

\* The loads started for a cache key, the oldest first; a promise of the inner
\* async function is named by its cache key and its place among them.
LoadsOf(cacheKey) == IF cacheKey \in DOMAIN promises THEN promises[cacheKey] ELSE <<>>

\* The loads that are still awaiting their loader.
Pending(cacheKey) ==
    {n \in 1..Len(LoadsOf(cacheKey)) : promises[cacheKey][n].state = "pending"}

\* the pending load of a cache key, 0 when there is none
PendingLoadOf(cacheKey) ==
    IF Pending(cacheKey) # {} THEN CHOOSE n \in Pending(cacheKey) : TRUE ELSE 0

AlreadyLoadedNever(cacheKey) == FALSE

\* this.loadedSet.has(cacheKey)
AlreadyLoaded(cacheKey) == cacheKey \in loadedSet

NoExistingPromise(cacheKey) == 0

\* this.loadingPromises.get(cacheKey): the in-flight promise of the key, 0 for
\* undefined
ExistingPromise(cacheKey) ==
    IF cacheKey \in DOMAIN loadingPromises THEN loadingPromises[cacheKey] ELSE 0

\* this.loaders.get(namespace)
LoaderOf(namespace) ==
    IF namespace \in DOMAIN loaders THEN loaders[namespace] ELSE "undefined"

HasLoaderAlways(loader) == TRUE

\* the test of if (!loader)
HasLoader(loader) == loader # "undefined"

\* this.loadingPromises.set(cacheKey, promise)
SetMarker(loading, cacheKey, promise) == (cacheKey :> promise) @@ loading

ClearMarkerSkipped(loading, cacheKey) == loading

\* the finally block: this.loadingPromises.delete(cacheKey)
ClearMarker(loading, cacheKey) == Without(loading, cacheKey)

\* One call of loadNamespace, up to its return: the whole synchronous step.
\* The inner async function runs up to its first await inside this step, so
\* the loader is called here, before loadingPromises.set; a loader that throws
\* when called (as does calling undefined) runs the finally block, the delete,
\* here too, before the set.  A load records whether the marker of its key
\* was in place as its loader was called (markerAtLoaderCall).
LoadNamespace(namespace, lang) ==
    LET targetLang == TargetLang(lang)
        cacheKey == CacheKey(namespace, targetLang)
        existing == ExistingPromise(cacheKey)
        loader == LoaderOf(namespace)
        id == Len(LoadsOf(cacheKey)) + 1
        call == [namespace |-> namespace, lang |-> targetLang, key |-> cacheKey,
                 pendingAtCall |-> PendingLoadOf(cacheKey)]
        threw == loader # "fetch"
        load == [namespace |-> namespace, lang |-> targetLang,
                 markerAtLoaderCall |-> cacheKey \in DOMAIN loadingPromises,
                 removedAfter |-> 0,
                 loader |-> IF threw THEN "threw" ELSE "pending",
                 state |-> IF threw THEN "rejected" ELSE "pending"]
        returned(how, promise) ==
            calls (+) SetToBag({call @@ [how |-> how, promise |-> promise]})
    IN /\ BagCardinality(calls) < MaxCalls
       /\ \/ /\ AlreadyLoaded(cacheKey)
             /\ calls' = returned("loaded", 0)
             /\ UNCHANGED <<loadingPromises, promises>>
          \/ /\ ~AlreadyLoaded(cacheKey)
             /\ existing # 0
             /\ calls' = returned("joined", existing)
             /\ UNCHANGED <<loadingPromises, promises>>
          \/ /\ ~AlreadyLoaded(cacheKey)
             /\ existing = 0
             /\ ~HasLoader(loader)
             /\ calls' = returned("noLoader", 0)
             /\ UNCHANGED <<loadingPromises, promises>>
          \/ /\ ~AlreadyLoaded(cacheKey)
             /\ existing = 0
             /\ HasLoader(loader)
             /\ promises' = (cacheKey :> Append(LoadsOf(cacheKey), load)) @@ promises
             /\ loadingPromises' =
                   SetMarker(IF threw THEN ClearMarker(loadingPromises, cacheKey)
                                      ELSE loadingPromises,
                             cacheKey, id)
             /\ calls' = returned("started", id)
       /\ query' = NoQuery
       /\ UNCHANGED <<config, currentLanguage, namespaceStore, loaders, loadedSet,
                      sharedWithConfig>>

\* a continuation that reads the current language anew after the await
LoaderResolvesForCurrentLanguage(cacheKey, n) ==
    LET load == promises[cacheKey][n]
        nsTranslations == (currentLanguage :> LoaderTree(load.lang))
    IN /\ n \in Pending(cacheKey)
       /\ namespaceStore' = AddedTo(namespaceStore, load.namespace, nsTranslations)
       /\ loadedSet' = loadedSet \cup {CacheKey(load.namespace, currentLanguage)}
       /\ loadingPromises' = ClearMarker(loadingPromises, cacheKey)
       /\ promises' = [promises EXCEPT ![cacheKey][n].loader = "fulfilled",
                                       ![cacheKey][n].state = "fulfilled",
                                    ![cacheKey][n].removedAfter = 0]
       /\ config' = ConfigAfterAdd(config, sharedWithConfig, namespaceStore',
                                   load.namespace)
       /\ query' = NoQuery
       /\ UNCHANGED <<currentLanguage, loaders, calls, sharedWithConfig>>

\* The loader's promise fulfils: the rest of the inner async function runs.
LoaderResolves(cacheKey, n) ==
    LET load == promises[cacheKey][n]
        nsTranslations == (load.lang :> LoaderTree(load.lang))
    IN /\ n \in Pending(cacheKey)
       /\ namespaceStore' = AddedTo(namespaceStore, load.namespace, nsTranslations)
       /\ loadedSet' = loadedSet \cup {cacheKey}
       /\ loadingPromises' = ClearMarker(loadingPromises, cacheKey)
       /\ promises' = [promises EXCEPT ![cacheKey][n].loader = "fulfilled",
                                       ![cacheKey][n].state = "fulfilled",
                                    ![cacheKey][n].removedAfter = 0]
       /\ config' = ConfigAfterAdd(config, sharedWithConfig, namespaceStore',
                                   load.namespace)
       /\ query' = NoQuery
       /\ UNCHANGED <<currentLanguage, loaders, calls, sharedWithConfig>>

\* a catch block in place of the finally block
LoaderRejectsSwallowed(cacheKey, n) ==
    /\ n \in Pending(cacheKey)
    /\ loadingPromises' = ClearMarker(loadingPromises, cacheKey)
    /\ promises' = [promises EXCEPT ![cacheKey][n].loader = "rejected",
                                    ![cacheKey][n].state = "fulfilled",
                                    ![cacheKey][n].removedAfter = 0]
    /\ query' = NoQuery
    /\ UNCHANGED <<config, currentLanguage, namespaceStore, loaders, loadedSet, calls,
                   sharedWithConfig>>

\* The loader's promise rejects: only the finally block runs.
LoaderRejects(cacheKey, n) ==
    LET load == promises[cacheKey][n]
    IN /\ n \in Pending(cacheKey)
       /\ loadingPromises' = ClearMarker(loadingPromises, cacheKey)
       /\ promises' = [promises EXCEPT ![cacheKey][n].loader = "rejected",
                                       ![cacheKey][n].state = "rejected",
                                       ![cacheKey][n].removedAfter = 0]
       /\ query' = NoQuery
       /\ UNCHANGED <<config, currentLanguage, namespaceStore, loaders, loadedSet, calls,
                      sharedWithConfig>>

\* How the promise a loadNamespace call returned has settled.
CallOutcome(call) ==
    IF call.promise = 0 THEN "fulfilled" ELSE promises[call.key][call.promise].state

\* how often the loader of a namespace was invoked for a language
LoaderInvocations(namespace, lang) ==
    Cardinality({n \in 1..Len(LoadsOf(CacheKey(namespace, lang))) :
                   /\ promises[CacheKey(namespace, lang)][n].namespace = namespace
                   /\ promises[CacheKey(namespace, lang)][n].lang = lang})

----------------------------------------------------------------------------
(* Translation resolution. *)

NamespaceValue(name, targetLang, path) ==
    IF name \in DOMAIN namespaceStore
    THEN LET nsData == namespaceStore[name]
         IN Coalesce(GetNestedValue(Lookup(nsData, targetLang), path),
                     GetNestedValue(Lookup(nsData, config.defaultLanguage), path))
    ELSE Undefined

ResolveTranslation(key, targetLang) ==
    LET parsed == ParseKey(key)
        namespace == parsed.namespace
        path == parsed.path
        fromDefaultNs ==
            IF Truthy(config.defaultNamespace)
            THEN NamespaceValue(config.defaultNamespace, targetLang, path)
            ELSE Undefined
        topLevel ==
            Coalesce(GetNestedValue(Lookup(config.translations, targetLang), path),
                     GetNestedValue(Lookup(config.translations, config.defaultLanguage),
                                    path))
    IN IF Truthy(namespace)
       THEN NamespaceValue(namespace, targetLang, path)
       ELSE IF fromDefaultNs # Undefined THEN fromDefaultNs ELSE topLevel

HasTranslation(key, lang) == ResolveTranslation(key, TargetLang(lang)) # Undefined

Throw == [kind |-> "throw"]

\* params[name], undefined when absent
Param(params, name) ==
    IF params # NoParams /\ \E i \in 1..Len(params) : params[i].name = name
    THEN params[CHOOSE i \in 1..Len(params) : params[i].name = name].value
    ELSE Undefined

RECURSIVE NatToString(_)
NatToString(n) ==
    IF n < 10 THEN <<Digits[n + 1]>> ELSE NatToString(n \div 10) \o <<Digits[(n % 10) + 1]>>

\* String(value) for the values a parameter can hold
StringOf(value) ==
    CASE value.kind = "number" -> NatToString(value.num)
      [] value.kind = "boolean" ->
            IF value.bool THEN <<"t", "r", "u", "e">> ELSE <<"f", "a", "l", "s", "e">>
      [] OTHER -> value.text

\* One element of a compiled pattern that matches any character (the "." of
\* a regular expression); every other element is the character it matches.
AnyChar == "(any)"

\* new RegExp(`\\{${key}\\}`, "g") for a key of letters, "." and "(": the two
\* braces are escaped and match themselves, the key is pattern source, so its
\* "." matches any character
RegExpOf(key) ==
    <<"{">> \o [i \in 1..Len(key) |-> IF key[i] = "." THEN AnyChar ELSE key[i]] \o <<"}">>

\* whether the pattern source compiles: a "(" the key never closes is a
\* SyntaxError (Unterminated group)
Compiles(key) == \A i \in 1..Len(key) : key[i] # "("

\* the pattern matches a prefix of the text
MatchesAt(text, pattern) ==
    /\ Len(pattern) <= Len(text)
    /\ \A i \in 1..Len(pattern) : pattern[i] = AnyChar \/ pattern[i] = text[i]

\* the replacement string of String.prototype.replace: "$$" inserts "$" and
\* "$&" the matched text; every other character stands for itself
RECURSIVE Expand(_, _)
Expand(replacement, matched) ==
    IF replacement = <<>>
    THEN <<>>
    ELSE IF Len(replacement) >= 2 /\ replacement[1] = "$" /\ replacement[2] = "$"
         THEN <<"$">> \o Expand(SubSeq(replacement, 3, Len(replacement)), matched)
         ELSE IF Len(replacement) >= 2 /\ replacement[1] = "$" /\ replacement[2] = "&"
              THEN matched \o Expand(SubSeq(replacement, 3, Len(replacement)), matched)
              ELSE <<Head(replacement)>> \o Expand(Tail(replacement), matched)

\* text.replace(regex, replacement) with the g flag: the matches from left to
\* right, none overlapping another
RECURSIVE ReplaceAll(_, _, _)
ReplaceAll(text, pattern, replacement) ==
    IF Len(text) < Len(pattern) \/ text = <<>>
    THEN text
    ELSE IF MatchesAt(text, pattern)
         THEN Expand(replacement, SubSeq(text, 1, Len(pattern))) \o
              ReplaceAll(SubSeq(text, Len(pattern) + 1, Len(text)), pattern, replacement)
         ELSE <<Head(text)>> \o ReplaceAll(Tail(text), pattern, replacement)

RECURSIVE InterpolateFrom(_, _, _)
InterpolateFrom(result, params, i) ==
    IF i > Len(params)
    THEN result
    ELSE InterpolateFrom(
             ReplaceAll(result, RegExpOf(params[i].name), StringOf(params[i].value)),
             params, i + 1)

\* interpolate(text, params = {}): with an entry to replace, a key whose pattern
\* does not compile throws, and a text that is no string has no replace method
Interpolate(text, params) ==
    IF params = NoParams \/ params = <<>>
    THEN text
    ELSE IF text.kind # "string" \/ \E i \in 1..Len(params) : ~Compiles(params[i].name)
         THEN Throw
         ELSE Str(InterpolateFrom(text.text, params, 1))

GetPluralForm(count, lang) ==
    IF count = Num(0) THEN <<"z", "e", "r", "o">>
    ELSE IF count = Num(1) THEN <<"o", "n", "e">>
    ELSE <<"o", "t", "h", "e", "r">>

\* a || b on translation values: undefined and "" are falsy
OrElse(a, b) == IF a = Undefined \/ a = Str(<<>>) THEN b ELSE a

\* { ...params, count }
WithCount(params, count) ==
    IF \E i \in 1..Len(params) : params[i].name = <<"c", "o", "u", "n", "t">>
    THEN [i \in 1..Len(params) |->
            IF params[i].name = <<"c", "o", "u", "n", "t">>
            THEN [name |-> params[i].name, value |-> count]
            ELSE params[i]]
    ELSE Append(params, [name |-> <<"c", "o", "u", "n", "t">>, value |-> count])

HandlePlural(pluralObj, count, params, lang) ==
    LET form == GetPluralForm(count, lang)
        text == OrElse(Prop(pluralObj, form), Prop(pluralObj, <<"o", "t", "h", "e", "r">>))
    IN Interpolate(text, WithCount(params, count))

\* translate(key, params, lang): the string returned, as a value
Translate(key, params, lang) ==
    LET targetLang == TargetLang(lang)
        translation == ResolveTranslation(key, targetLang)
        count == Param(params, <<"c", "o", "u", "n", "t">>)
    IN IF translation = Undefined \/ translation = Null
       THEN Str(key)
       ELSE IF /\ translation.kind = "object"
               /\ <<"o", "n", "e">> \in DOMAIN translation.fields
               /\ count # Undefined
            THEN HandlePlural(translation, count, params, targetLang)
            ELSE IF translation.kind = "function"
                 THEN translation.result
                 ELSE IF translation.kind = "string"
                      THEN IF params # NoParams
                           THEN Interpolate(translation, params)
                           ELSE translation
                      ELSE Str(key)

GetTranslation(key, lang) ==
    LET translation == ResolveTranslation(key, TargetLang(lang))
    IN IF translation.kind = "string" THEN translation ELSE Str(key)

----------------------------------------------------------------------------

Next ==
    \/ \E lang \in LanguageArgs : SetLanguage(lang)
    \/ \E name \in AddNames, translations \in AddInputs : AddNamespace(name, translations)
    \/ \E name \in NamespaceNames : RemoveNamespace(name)
    \/ \E name \in NamespaceNames, loader \in LoaderIds : RegisterLoader(name, loader)
    \/ \E name \in NamespaceNames, lang \in LoadLangArgs : LoadNamespace(name, lang)
    \/ \E key \in DOMAIN promises : \E n \in 1..Len(promises[key]) : LoaderResolves(key, n)
    \/ \E key \in DOMAIN promises : \E n \in 1..Len(promises[key]) : LoaderRejects(key, n)

Spec == Init /\ [][Next]_vars

----------------------------------------------------------------------------
(* The synchronous queries, made of an engine that is constructed from one   *)
(* of the richer configurations and changed by setLanguage, addNamespace and *)
(* removeNamespace.                                                          *)

InitTranslate ==
    /\ config \in TranslateConfigs
    /\ currentLanguage = config.defaultLanguage
    /\ namespaceStore = config.namespaces
    /\ loaders = config.lazyNamespaces
    /\ loadingPromises = [k \in {} |-> 0]
    /\ loadedSet = {}
    /\ promises = [k \in {} |-> <<>>]
    /\ calls = EmptyBag
    /\ sharedWithConfig = DOMAIN config.namespaces
    /\ query = NoQuery

\* a query changes nothing of the engine
Asked(q) ==
    /\ query' = q
    /\ UNCHANGED <<config, currentLanguage, namespaceStore, loaders, loadingPromises,
                   loadedSet, promises, calls, sharedWithConfig>>

\* a plausible slip: the language override becomes the current language
TranslateQuerySetsLanguage(key, params, lang) ==
    /\ query' = [op |-> "translate", key |-> key, params |-> params, lang |-> lang,
                 result |-> Translate(key, params, lang)]
    /\ currentLanguage' = TargetLang(lang)
    /\ UNCHANGED <<config, namespaceStore, loaders, loadingPromises, loadedSet,
                   promises, calls, sharedWithConfig>>

TranslateQuery(key, params, lang) ==
    Asked([op |-> "translate", key |-> key, params |-> params, lang |-> lang,
           result |-> Translate(key, params, lang)])

GetTranslationQuery(key, lang) ==
    Asked([op |-> "getTranslation", key |-> key, params |-> NoParams, lang |-> lang,
           result |-> GetTranslation(key, lang)])

HasTranslationQuery(key, lang) ==
    Asked([op |-> "hasTranslation", key |-> key, params |-> NoParams, lang |-> lang,
           result |-> HasTranslation(key, lang)])

\* A query is an observation of the state it is made of: it is recorded as a
\* state of its own, and the engine goes on from the state observed.
NextTranslate ==
    \/ query = NoQuery /\ \E lang \in TranslateLanguageArgs : SetLanguage(lang)
    \/ query = NoQuery /\ \E name \in TranslateAddNames, translations \in TranslateAddInputs :
          AddNamespace(name, translations)
    \/ query = NoQuery /\ \E name \in TranslateRemoveNames : RemoveNamespace(name)
    \/ query = NoQuery /\ \E key \in TranslateKeys, params \in TranslateParams,
                             lang \in TranslateLangs : TranslateQuery(key, params, lang)
    \/ query = NoQuery /\ \E key \in TranslateKeys, lang \in TranslateLangs :
          GetTranslationQuery(key, lang)
    \/ query = NoQuery /\ \E key \in TranslateKeys, lang \in TranslateLangs :
          HasTranslationQuery(key, lang)

SpecTranslate == InitTranslate /\ [][NextTranslate]_vars

----------------------------------------------------------------------------
\* The queries against an engine with loads in flight

QueryKeys == {SegHello, NsLazy \o <<":">> \o SegKey, NsAuth \o <<":">> \o SegHello}
QueryParams == {NoParams, <<CountOf(1)>>}
QueryLangs == {NoLang, En}
QueryNames == {NsEmpty, NsLazy, NsAuth}

IsNamespaceLoadedQuery(namespace, lang) ==
    Asked([op |-> "isNamespaceLoaded", name |-> namespace, lang |-> lang,
           result |-> IsNamespaceLoaded(namespace, lang)])

HasNamespaceQuery(name) ==
    Asked([op |-> "hasNamespace", name |-> name, result |-> HasNamespace(name)])

GetNamespacesQuery == Asked([op |-> "getNamespaces", result |-> GetNamespaces])

NextQueries ==
    \/ query = NoQuery /\ \E lang \in LanguageArgs : SetLanguage(lang)
    \/ query = NoQuery /\ \E name \in NamespaceNames, lang \in LoadLangArgs :
          LoadNamespace(name, lang)
    \/ query = NoQuery /\ \E key \in DOMAIN promises : \E n \in 1..Len(promises[key]) :
          LoaderResolves(key, n)
    \/ query = NoQuery /\ \E key \in DOMAIN promises : \E n \in 1..Len(promises[key]) :
          LoaderRejects(key, n)
    \/ query = NoQuery /\ \E key \in QueryKeys, params \in QueryParams, lang \in QueryLangs :
          TranslateQuery(key, params, lang)
    \/ query = NoQuery /\ \E key \in QueryKeys, lang \in QueryLangs :
          GetTranslationQuery(key, lang)
    \/ query = NoQuery /\ \E key \in QueryKeys, lang \in QueryLangs :
          HasTranslationQuery(key, lang)
    \/ query = NoQuery /\ \E name \in QueryNames, lang \in QueryLangs :
          IsNamespaceLoadedQuery(name, lang)
    \/ query = NoQuery /\ \E name \in QueryNames : HasNamespaceQuery(name)
    \/ query = NoQuery /\ GetNamespacesQuery

SpecQueries == Init /\ [][NextQueries]_vars

----------------------------------------------------------------------------
\* loadNamespaces: the calls of loadNamespace it makes, and their join

MaxBatches == 2

\* the data of a namespace that is lazy too: for en a key the loader returns
\* and a group it does not
LazySeed ==
    (En :> Obj((SegHello :> Str(TxtLogin)) @@ (SegNav :> Obj(SegHome :> Str(TxtHome))))) @@
    (Es :> Obj(SegHello :> Str(TxtEntrar)))

\* a configuration with two lazy namespaces, one of them with data already
ConfigLazy ==
    [ConfigDefaultNs EXCEPT !.namespaces = (NsAuth :> LazySeed),
                            !.lazyNamespaces = (NsLazy :> "fetch") @@ (NsAuth :> "fetch")]

\* the lists loadNamespaces is called with: two lazy namespaces, a lazy one
\* and one without loader, the same namespace twice
NamespaceLists == {<<NsLazy, NsAuth>>, <<NsAuth, NsUnknown>>, <<NsLazy, NsLazy>>}

\* the loadNamespaces calls made so far
Batches == {call.batch : call \in {c \in BagToSet(calls) : "batch" \in DOMAIN c}}

\* what a loadNamespace call reads and writes before it returns
LoadingState == [loadingPromises |-> loadingPromises, promises |-> promises, calls |-> calls]

\* One loadNamespace(namespace, lang) call made by loadNamespaces call number
\* batch, from the loading state st: the state it leaves.
Called(st, namespace, lang, batch) ==
    LET targetLang == TargetLang(lang)
        cacheKey == CacheKey(namespace, targetLang)
        loads == IF cacheKey \in DOMAIN st.promises THEN st.promises[cacheKey] ELSE <<>>
        existing == IF cacheKey \in DOMAIN st.loadingPromises
                    THEN st.loadingPromises[cacheKey] ELSE 0
        pending == {n \in 1..Len(loads) : loads[n].state = "pending"}
        loader == LoaderOf(namespace)
        id == Len(loads) + 1
        threw == loader # "fetch"
        load == [namespace |-> namespace, lang |-> targetLang,
                 markerAtLoaderCall |-> cacheKey \in DOMAIN st.loadingPromises,
                 removedAfter |-> 0,
                 loader |-> IF threw THEN "threw" ELSE "pending",
                 state |-> IF threw THEN "rejected" ELSE "pending"]
        returned(how, promise) ==
            st.calls (+) SetToBag({[namespace |-> namespace, lang |-> targetLang,
                                    key |-> cacheKey,
                                    pendingAtCall |-> IF pending # {}
                                                      THEN CHOOSE n \in pending : TRUE
                                                      ELSE 0,
                                    how |-> how, promise |-> promise, batch |-> batch]})
    IN IF AlreadyLoaded(cacheKey)
       THEN [st EXCEPT !.calls = returned("loaded", 0)]
       ELSE IF existing # 0
            THEN [st EXCEPT !.calls = returned("joined", existing)]
            ELSE IF ~HasLoader(loader)
                 THEN [st EXCEPT !.calls = returned("noLoader", 0)]
                 ELSE [loadingPromises |->
                          SetMarker(IF threw THEN ClearMarker(st.loadingPromises, cacheKey)
                                             ELSE st.loadingPromises,
                                    cacheKey, id),
                       promises |-> (cacheKey :> Append(loads, load)) @@ st.promises,
                       calls |-> returned("started", id)]

\* namespaces.map((ns) => this.loadNamespace(ns, lang)): the calls in the
\* order of the list, each from the state the one before left
RECURSIVE CalledAll(_, _, _, _)
CalledAll(st, namespaces, lang, batch) ==
    IF namespaces = <<>>
    THEN st
    ELSE CalledAll(Called(st, Head(namespaces), lang, batch), Tail(namespaces), lang, batch)

\* loadNamespaces(namespaces, lang) up to its await: every loadNamespace call
\* is made before the first of the promises is awaited.
LoadNamespaces(namespaces, lang) ==
    LET left == CalledAll(LoadingState, namespaces, lang, Cardinality(Batches) + 1)
    IN /\ Cardinality(Batches) < MaxBatches
       /\ loadingPromises' = left.loadingPromises
       /\ promises' = left.promises
       /\ calls' = left.calls
       /\ query' = NoQuery
       /\ UNCHANGED <<config, currentLanguage, namespaceStore, loaders, loadedSet,
                      sharedWithConfig>>

\* the loadNamespace calls of a loadNamespaces call
BatchCalls(batch) == {call \in BagToSet(calls) : "batch" \in DOMAIN call /\ call.batch = batch}

\* Promise.all of the outcomes of the promises: rejected as soon as one is
\* rejected, fulfilled when all are fulfilled
PromiseAll(outcomes) ==
    IF "rejected" \in outcomes THEN "rejected"
    ELSE IF "pending" \in outcomes THEN "pending"
    ELSE "fulfilled"

\* how the promise of a loadNamespaces call has settled
BatchOutcome(batch) == PromiseAll({CallOutcome(call) : call \in BatchCalls(batch)})

InitLoadMany ==
    /\ config = ConfigLazy
    /\ currentLanguage = config.defaultLanguage
    /\ namespaceStore = config.namespaces
    /\ loaders = config.lazyNamespaces
    /\ loadingPromises = [k \in {} |-> 0]
    /\ loadedSet = {}
    /\ promises = [k \in {} |-> <<>>]
    /\ calls = EmptyBag
    /\ sharedWithConfig = DOMAIN config.namespaces
    /\ query = NoQuery

NextLoadMany ==
    \/ \E namespaces \in NamespaceLists, lang \in LoadLangArgs :
          LoadNamespaces(namespaces, lang)
    \/ \E key \in DOMAIN promises : \E n \in 1..Len(promises[key]) : LoaderResolves(key, n)
    \/ \E key \in DOMAIN promises : \E n \in 1..Len(promises[key]) : LoaderRejects(key, n)

SpecLoadMany == InitLoadMany /\ [][NextLoadMany]_vars

----------------------------------------------------------------------------
\* Loads, removals and additions of namespaces whose names share a prefix:
\* "z", "zz" and "z:y", each with a loader.

NsColon == NsLazy \o <<":", "y">>

PairNames == {NsLazy, NsLazy \o NsLazy, NsColon}

ConfigPairs ==
    [ConfigDefaultNs EXCEPT !.lazyNamespaces = [name \in PairNames |-> "fetch"]]

InitPairs ==
    /\ config = ConfigPairs
    /\ currentLanguage = config.defaultLanguage
    /\ namespaceStore = config.namespaces
    /\ loaders = config.lazyNamespaces
    /\ loadingPromises = [k \in {} |-> 0]
    /\ loadedSet = {}
    /\ promises = [k \in {} |-> <<>>]
    /\ calls = EmptyBag
    /\ sharedWithConfig = DOMAIN config.namespaces
    /\ query = NoQuery

NextPairs ==
    \/ \E name \in PairNames, lang \in LoadLangArgs : LoadNamespace(name, lang)
    \/ \E key \in DOMAIN promises : \E n \in 1..Len(promises[key]) : LoaderResolves(key, n)
    \/ \E name \in PairNames : RemoveNamespaceDuringLoads(name)
    \/ \E name \in AddNames, translations \in AddInputs : AddNamespace(name, translations)

SpecPairs == InitPairs /\ [][NextPairs]_vars

----------------------------------------------------------------------------
\* interpolate on its own: the templates and parameter maps it is called with

Templates ==
    {<<>>,
     <<"x">>,
     <<"{", "a", "}">>,
     <<"{", "b", "}">>,
     <<"{", "a", "}", "x", "{", "a", "}">>,
     <<"{", "a", "}", "{", "b", "}">>,
     <<"{", "a", ".", "b", "}", "{", "a", "x", "b", "}">>,
     <<"{", "a", "}", "{", "a", ".", "b", "}">>,
     <<"{", "a">>,
     <<"a", "}">>}

Entry(name, value) == [name |-> name, value |-> value]

\* parameter maps as their entries in insertion order (Object.entries)
InterpolateParams ==
    {<<>>,
     <<Entry(<<"a">>, Str(TxtValue))>>,
     <<Entry(<<"a">>, Num(7))>>,
     <<Entry(<<"a">>, Bool(TRUE))>>,
     <<Entry(<<"b">>, Str(TxtValue))>>,
     <<Entry(<<"a">>, Str(TxtValue)), Entry(<<"b">>, Num(0))>>,
     <<Entry(<<"b">>, Num(0)), Entry(<<"a">>, Str(TxtValue))>>,
     <<Entry(<<"a", ".", "b">>, Str(TxtValue))>>,
     <<Entry(<<"(">>, Str(TxtValue))>>,
     <<Entry(<<"a">>, Str(<<"$", "&">>))>>,
     <<Entry(<<"a">>, Str(<<"$", "$">>))>>,
     <<Entry(<<"a">>, Str(<<"$">>))>>,
     <<Entry(<<"a">>, Str(<<"{", "b", "}">>)), Entry(<<"b">>, Str(TxtValue))>>,
     <<Entry(<<"b">>, Str(TxtValue)), Entry(<<"a">>, Str(<<"{", "b", "}">>))>>}

InterpolateQuery(text, params) ==
    Asked([op |-> "interpolate", text |-> text, params |-> params,
           result |-> Interpolate(Str(text), params)])

NextInterpolate ==
    query = NoQuery /\ \E text \in Templates, params \in InterpolateParams :
        InterpolateQuery(text, params)

SpecInterpolate == Init /\ [][NextInterpolate]_vars

----------------------------------------------------------------------------
(* Properties of the lazy-load coordinator. *)

Calls == BagToSet(calls)

\* the load a call is attached to
LoadOfCall(call) == promises[call.key][call.promise]

\* the calls made in this step
NewCalls == {call \in BagToSet(calls') : CopiesIn(call, calls') > CopiesIn(call, calls)}

\* the loads (cacheKey, n) started in this step
NewLoads ==
    {load \in UNION {{<<key, n>> : n \in 1..Len(promises'[key])} : key \in DOMAIN promises'} :
        load[2] > Len(LoadsOf(load[1]))}

\* what the loader's own outcome makes of the promise
OutcomeOfLoader(outcome) ==
    CASE outcome = "pending" -> "pending"
      [] outcome = "fulfilled" -> "fulfilled"
      [] OTHER -> "rejected"

EngineUnchanged ==
    UNCHANGED <<config, currentLanguage, namespaceStore, loaders, loadingPromises,
                loadedSet, promises, sharedWithConfig>>

AllKeys == {CacheKey(name, lang) : name \in NamespaceNames, lang \in Languages}

\* C1: every loadNamespace call made for a pair while a load of that pair is
\* pending joins that load without invoking the loader, so the loader is
\* invoked by exactly one call per load, and every caller of a load settles
\* with the loader's outcome.
C1_ConcurrentCallsShareOneLoad ==
    /\ \A call \in Calls :
          call.pendingAtCall # 0 =>
             /\ call.how = "joined"
             /\ call.promise = call.pendingAtCall
    /\ \A key \in DOMAIN promises : \A n \in 1..Len(promises[key]) :
          LET starters == {call \in Calls : /\ call.key = key
                                            /\ call.promise = n
                                            /\ call.how = "started"}
          IN /\ Cardinality(starters) = 1
             /\ \A call \in starters : CopiesIn(call, calls) = 1
    /\ \A call \in Calls :
          call.promise # 0 => CallOutcome(call) = OutcomeOfLoader(LoadOfCall(call).loader)

\* three concurrent callers of one load, all fulfilled
C1_Witness ==
    \E call \in Calls :
       /\ call.how = "joined"
       /\ call.pendingAtCall # 0
       /\ CopiesIn(call, calls) >= 2
       /\ CallOutcome(call) = "fulfilled"

\* C2: at most one load is pending per cache key, a pending load always has
\* its in-flight marker, the marker of a load is in place before its loader is
\* called, and the step that starts a load found the key neither Loaded nor
\* in flight and leaves the marker inserted.
C2_AtMostOneInFlight ==
    /\ [](\A key \in DOMAIN promises :
            /\ Cardinality(Pending(key)) <= 1
            /\ \A n \in Pending(key) :
                  key \in DOMAIN loadingPromises /\ loadingPromises[key] = n
            /\ \A n \in 1..Len(promises[key]) : promises[key][n].markerAtLoaderCall)
    /\ [][\A load \in NewLoads :
            /\ load[1] \notin loadedSet
            /\ load[1] \notin DOMAIN loadingPromises
            /\ load[1] \in DOMAIN loadingPromises'
            /\ loadingPromises'[load[1]] = load[2]]_vars

\* two cache keys in flight at once, one load each
C2_Witness ==
    /\ Cardinality({key \in DOMAIN promises : Pending(key) # {}}) >= 2
    /\ \E key \in DOMAIN promises : Len(promises[key]) >= 2 /\ Pending(key) # {}

\* C3: once the loader call of a load has ended, the in-flight marker of its
\* key is removed: a marker only ever names a load whose loader is pending.
C3_MarkerRemovedWhenLoadEnds ==
    \A key \in DOMAIN loadingPromises :
       promises[key][loadingPromises[key]].loader = "pending"

\* C4: when the loader of a load fails, the load's promise rejects, every
\* caller of the load is rejected, the key is not marked Loaded and the
\* registry is left as it was.
C4_LoaderFailurePropagates ==
    /\ [](\A call \in Calls :
            (call.promise # 0 /\ LoadOfCall(call).loader \in {"rejected", "threw"}) =>
               CallOutcome(call) = "rejected")
    /\ [][\A key \in DOMAIN promises' : \A n \in 1..Len(promises'[key]) :
            (/\ promises'[key][n].loader \in {"rejected", "threw"}
             /\ (n > Len(LoadsOf(key)) \/ promises[key][n].loader = "pending")) =>
               /\ promises'[key][n].state = "rejected"
               /\ key \notin loadedSet'
               /\ loadedSet' = loadedSet
               /\ namespaceStore' = namespaceStore]_vars

\* a caller rejected by a loader whose promise rejected, the pair not Loaded
C4_Witness ==
    \E call \in Calls :
       /\ call.promise # 0
       /\ LoadOfCall(call).loader = "rejected"
       /\ CallOutcome(call) = "rejected"
       /\ ~IsNamespaceLoaded(call.namespace, call.lang)

LoadState(key) ==
    CASE key \in loadedSet /\ key \in DOMAIN loadingPromises -> "LoadingAndLoaded"
      [] key \in loadedSet -> "Loaded"
      [] key \in DOMAIN loadingPromises -> "Loading"
      [] OTHER -> "NotLoaded"

\* the loader of the in-flight load of the key ends in this step
InFlightLoaderEnds(key, outcome) ==
    LET n == loadingPromises[key]
    IN /\ promises[key][n].loader = "pending"
       /\ promises'[key][n].loader = outcome

\* C5: every pair starts NotLoaded and is never Loading and Loaded at once;
\* it moves NotLoaded -> Loading only in a loadNamespace call that starts the
\* loader, Loading -> Loaded only when that loader succeeds, Loading ->
\* NotLoaded only when it fails, Loaded -> NotLoaded only by removeNamespace,
\* and in no other way.
C5_LoadStateMachine ==
    /\ \A key \in AllKeys : LoadState(key) = "NotLoaded"
    /\ [](\A key \in AllKeys : LoadState(key) # "LoadingAndLoaded")
    /\ [][\A key \in AllKeys :
            LET from == LoadState(key)
                to == LoadState(key)'
            IN \/ from = to
               \/ /\ from = "NotLoaded" /\ to = "Loading"
                  /\ \E call \in NewCalls : call.key = key /\ call.how = "started"
                  /\ \E load \in NewLoads : load[1] = key
               \/ /\ from = "Loading" /\ to = "Loaded"
                  /\ InFlightLoaderEnds(key, "fulfilled")
               \/ /\ from = "Loading" /\ to = "NotLoaded"
                  /\ InFlightLoaderEnds(key, "rejected")
               \/ /\ from = "Loaded" /\ to = "NotLoaded"
                  /\ \E name \in NamespaceNames : RemoveNamespace(name)]_vars

\* one pair Loaded, another NotLoaded again after a failed load, a third
\* NotLoaded again after a removal
C5_Witness ==
    /\ \E key \in AllKeys : LoadState(key) = "Loaded"
    /\ \E key \in DOMAIN promises :
          /\ LoadState(key) = "NotLoaded"
          /\ promises[key][Len(promises[key])].loader = "rejected"
    /\ \E key \in DOMAIN promises :
          /\ LoadState(key) = "NotLoaded"
          /\ promises[key][Len(promises[key])].loader = "fulfilled"

\* C6: a loadNamespace call on a Loaded pair resolves at once and changes
\* nothing: no loader is invoked, and namespace data, loaded markers,
\* in-flight loads and loaders are as before.
C6_LoadedIsNoOp ==
    [][\A call \in NewCalls :
          call.key \in loadedSet =>
             /\ call.how = "loaded"
             /\ call.promise = 0
             /\ CallOutcome(call)' = "fulfilled"
             /\ EngineUnchanged]_vars

\* the same Loaded pair loaded twice more
C6_Witness ==
    \E call \in Calls :
       /\ call.how = "loaded"
       /\ CopiesIn(call, calls) >= 2
       /\ call.key \in loadedSet

\* C7: a loadNamespace call for a namespace without a loader, on a pair
\* neither Loaded nor in flight, resolves without failure and changes nothing.
C7_NoLoaderIsNoOp ==
    [][\A call \in NewCalls :
          (/\ call.namespace \notin DOMAIN loaders
           /\ call.key \notin loadedSet
           /\ call.key \notin DOMAIN loadingPromises) =>
             /\ call.how = "noLoader"
             /\ call.promise = 0
             /\ CallOutcome(call)' = "fulfilled"
             /\ EngineUnchanged]_vars

\* such a call was made, and the pair is still neither Loaded nor in flight
C7_Witness ==
    \E call \in Calls :
       /\ call.how = "noLoader"
       /\ call.namespace \notin DOMAIN loaders
       /\ LoadState(call.key) = "NotLoaded"
       /\ call.namespace \notin DOMAIN namespaceStore

----------------------------------------------------------------------------
(* Properties of translation resolution. *)

\* the keys translate is asked for: a prefix, ":" and a path
KeyPrefixes == {NsEmpty, NsAuth, NsLazy, NsUnknown}
Paths == {SegHello, SegKey, PathNavHome, SegMissing}
NamespacedKey(prefix, path) == prefix \o <<":">> \o path

\* the value of a path in the tree a namespace holds for a language
InNamespace(name, lang, path) ==
    IF name \in DOMAIN namespaceStore
    THEN GetNestedValue(Lookup(namespaceStore[name], lang), path)
    ELSE Undefined

\* removeNamespace(name) on a namespace with a Loaded pair leaves no pair of
\* the namespace Loaded, makes translate return every key of the namespace
\* literally, and leaves the pairs that were Loaded neither Loaded nor in
\* flight with the loader still registered, so that the next loadNamespace
\* invokes the loader.
RemovalClearsLoadedState(names) ==
    \A name \in names :
       (/\ name \in DOMAIN namespaceStore
        /\ name \notin DOMAIN namespaceStore'
        /\ \E lang \in Languages : CacheKey(name, lang) \in loadedSet) =>
          /\ \A lang \in Languages \cup {NoLang} : ~IsNamespaceLoaded(name, lang)'
          /\ \A path \in Paths : \A lang \in Languages \cup {NoLang} :
                Translate(NamespacedKey(name, path), NoParams, lang)' =
                   Str(NamespacedKey(name, path))
          /\ \A lang \in Languages :
                CacheKey(name, lang) \in loadedSet =>
                   /\ LoadState(CacheKey(name, lang))' = "NotLoaded"
                   /\ HasLoader(LoaderOf(name))'

\* C8: after a successful loadNamespace(x, lang), removeNamespace(x) leaves
\* isNamespaceLoaded(x, l) false for every l, translate('x:key') returning
\* the literal key, and the pair ready to be loaded by its loader again.
C8_RemovalClearsLoadedState == [][RemovalClearsLoadedState(NamespaceNames)]_vars

\* a key with an explicit prefix that resolves in the prefix's namespace
\* neither for the language nor for the default language is returned
\* literally and has no translation
NoFallThrough(prefixes) ==
    \A prefix \in prefixes : \A path \in Paths : \A lang \in Languages :
       LET key == NamespacedKey(prefix, path)
       IN (/\ InNamespace(prefix, lang, path) = Undefined
           /\ InNamespace(prefix, config.defaultLanguage, path) = Undefined) =>
             /\ Translate(key, NoParams, lang) = Str(key)
             /\ ~HasTranslation(key, lang)

\* C9: for every key containing ":", whatever stands before the first ":",
\* a path found in that namespace neither for the target language nor for
\* the default language makes translate return the key and hasTranslation
\* return false, whatever the top-level dictionary and the default namespace
\* hold.
C9_ExplicitNamespaceNeverFallsThrough == NoFallThrough(KeyPrefixes)

\* a key 'ns:path' of a registered namespace resolves to the value of the
\* path for the target language and, when there is none, to its value for
\* the default language
NamespaceFallbackOrder(names) ==
    \A name \in names \cap DOMAIN namespaceStore : \A path \in Paths :
       \A lang \in Languages :
          LET key == NamespacedKey(name, path)
              target == InNamespace(name, lang, path)
              default == InNamespace(name, config.defaultLanguage, path)
              expected == IF target # Undefined THEN target ELSE default
          IN expected # Undefined =>
                /\ ResolveTranslation(key, lang) = expected
                /\ expected.kind = "string" => Translate(key, NoParams, lang) = expected

\* C10: for a key 'ns:path' of a registered namespace ns, the value of path
\* in ns for the target language is used, and otherwise its value in ns for
\* the default language.
C10_NamespaceFallbackOrder == NamespaceFallbackOrder(KeyPrefixes)

----------------------------------------------------------------------------
(* Properties of the synchronous queries. *)

HasColon(key) == IndexOf(key, ":") # -1

\* the value of a path in the top-level dictionary of a language
InTopLevel(lang, path) == GetNestedValue(Lookup(config.translations, lang), path)

\* the first value of a sequence that is not undefined
RECURSIVE FirstDefined(_)
FirstDefined(values) ==
    IF values = <<>>
    THEN Undefined
    ELSE IF Head(values) # Undefined THEN Head(values) ELSE FirstDefined(Tail(values))

\* the tiers of a key without ":" under a default namespace, in the order of
\* the specification
DefaultNamespaceTiers(path, lang) ==
    <<InNamespace(config.defaultNamespace, lang, path),
      InNamespace(config.defaultNamespace, config.defaultLanguage, path),
      InTopLevel(lang, path),
      InTopLevel(config.defaultLanguage, path)>>

\* C11: with a default namespace configured, a key without ":" resolves to
\* the first value among: default namespace for the target language, default
\* namespace for defaultLanguage, top-level dictionary for the target
\* language, top-level dictionary for defaultLanguage; translate returns it
\* when it is a string, hasTranslation tells whether there is one, and with
\* none translate and getTranslation return the key.
C11_DefaultNamespaceTierOrder ==
    (/\ query.op \in {"translate", "getTranslation", "hasTranslation"}
     /\ ~HasColon(query.key)
     /\ Truthy(config.defaultNamespace)) =>
       LET expected == FirstDefined(DefaultNamespaceTiers(query.key, TargetLang(query.lang)))
       IN /\ query.op = "hasTranslation" => query.result = (expected # Undefined)
          /\ (query.op = "translate" /\ query.params = NoParams /\ expected.kind = "string") =>
                query.result = expected
          /\ (query.op = "getTranslation" /\ expected.kind = "string") =>
                query.result = expected
          /\ (query.op # "hasTranslation" /\ expected = Undefined) =>
                query.result = Str(query.key)

\* a key held by the default namespace for the default language only and by
\* the top-level dictionary for the target language: the namespace wins
C11_Witness ==
    /\ query.op = "translate"
    /\ query.key = SegHello
    /\ Truthy(config.defaultNamespace)
    /\ InNamespace(config.defaultNamespace, TargetLang(query.lang), SegHello) = Undefined
    /\ InNamespace(config.defaultNamespace, config.defaultLanguage, SegHello) # Undefined
    /\ InTopLevel(TargetLang(query.lang), SegHello) # Undefined
    /\ query.result = InNamespace(config.defaultNamespace, config.defaultLanguage, SegHello)

\* the value a key resolves to for the language of the query
Resolved == ResolveTranslation(query.key, TargetLang(query.lang))

\* A PluralValue of the specification: an object with string-valued one and
\* other, and no other key than the optional zero.
IsPluralValue(value) ==
    /\ value.kind = "object"
    /\ {SegOne, SegOther} \subseteq DOMAIN value.fields
    /\ DOMAIN value.fields \subseteq {SegZero, SegOne, SegOther}
    /\ \A form \in DOMAIN value.fields : value.fields[form].kind = "string"

\* a nested group: an object that is no PluralValue
IsGroup(value) == value.kind = "object" /\ ~IsPluralValue(value)

\* C12: translate and getTranslation return a string for every key, params
\* and language in every state, and the key itself when the key resolves to
\* nothing or to a nested group.
C12_QueriesNeverThrow ==
    query.op \in {"translate", "getTranslation"} =>
       /\ query.result.kind = "string"
       /\ (Resolved = Undefined \/ IsGroup(Resolved)) => query.result = Str(query.key)

\* C13: an object that is no PluralValue (a nested group, also one with a key
\* named one) is a wrong shape for translate: with or without a count, the
\* key is returned.
C13_OnlyPluralValuesArePlural ==
    (query.op = "translate" /\ IsGroup(Resolved)) => query.result = Str(query.key)

\* the count of the query's params, undefined when there is none
CountAsked == Param(query.params, SegCount)

\* the template of the specification's rule: zero for 0 when there is a zero
\* template, one for 1, other in every other case
ChosenTemplate(plural, n) ==
    IF n = 0 /\ SegZero \in DOMAIN plural.fields
    THEN plural.fields[SegZero]
    ELSE IF n = 1 THEN plural.fields[SegOne] ELSE plural.fields[SegOther]

\* the rule for the plural values whose templates are all in a set
PluralSelection(templates) ==
    (/\ query.op = "translate"
     /\ IsPluralValue(Resolved)
     /\ CountAsked.kind = "number"
     /\ \A form \in DOMAIN Resolved.fields : Resolved.fields[form] \in templates) =>
       query.result = Interpolate(ChosenTemplate(Resolved, CountAsked.num), query.params)

PluralTemplates == {Str(TxtOneItem), Str(TxtCountItems), Str(TxtNoItems), Str(<<>>)}

\* C14: for a PluralValue and a numeric count n, translate returns the
\* interpolation, with the count among the parameters, of the zero template
\* when n = 0 and there is one, of the one template when n = 1 and of the
\* other template otherwise, whatever the language.
C14_PluralSelection == PluralSelection(PluralTemplates)

----------------------------------------------------------------------------
\* Properties of interpolate

\* the entries of the map whose placeholder {name} starts the text
PlaceholderAt(text, params) ==
    {i \in 1..Len(params) : StartsWith(text, <<"{">> \o params[i].name \o <<"}">>)}

\* The template with every exact {name} of the map replaced by the
\* stringified value, all at once, and every other character kept.
RECURSIVE Substituted(_, _)
Substituted(text, params) ==
    IF text = <<>>
    THEN <<>>
    ELSE IF PlaceholderAt(text, params) # {}
         THEN LET i == CHOOSE i \in PlaceholderAt(text, params) : TRUE
              IN StringOf(params[i].value) \o
                 Substituted(SubSeq(text, Len(params[i].name) + 3, Len(text)), params)
         ELSE <<Head(text)>> \o Substituted(Tail(text), params)

\* C15: interpolate returns the template with every occurrence of the exact
\* text {name}, for each name of the map, replaced by the stringified value
\* and all other text verbatim: placeholders of other names stay, a
\* placeholder is replaced at all its occurrences, and a name with
\* regex-special characters matches only its own literal {name}.
C15_InterpolateReplacesExactPlaceholders ==
    query.op = "interpolate" =>
        query.result = Str(Substituted(query.text, query.params))

----------------------------------------------------------------------------
\* Properties of the namespace registry

\* the registry after the step holds name as the additive merge of trees
\* into what it held before
MergedAdditively(name, trees) ==
    LET before == namespaceStore
        after == namespaceStore'
    IN /\ name \in DOMAIN after
       /\ IF name \in DOMAIN before
          THEN /\ DOMAIN after[name] = DOMAIN before[name] \cup DOMAIN trees
               /\ \A lang \in DOMAIN before[name] \ DOMAIN trees :
                     after[name][lang] = before[name][lang]
               /\ \A lang \in DOMAIN trees \ DOMAIN before[name] :
                     after[name][lang] = trees[lang]
               /\ \A lang \in DOMAIN trees \cap DOMAIN before[name] :
                     LET old == before[name][lang].fields
                         new == trees[lang].fields
                         now == after[name][lang].fields
                     IN /\ DOMAIN now = DOMAIN old \cup DOMAIN new
                        /\ \A k \in DOMAIN new : now[k] = new[k]
                        /\ \A k \in DOMAIN old \ DOMAIN new : now[k] = old[k]
          ELSE after[name] = trees

\* every key of the namespace that resolved for a language of the incoming
\* trees still resolves after the step, and every incoming key resolves
KeysResolveAfter(name, trees) ==
    \A lang \in DOMAIN trees, k \in Paths :
        (HasTranslation(NamespacedKey(name, k), lang) \/ k \in DOMAIN trees[lang].fields)
            => HasTranslation(NamespacedKey(name, k), lang)'

\* C16: addNamespace(name, trees) on an existing namespace merges per
\* language (every incoming top-level key stored, the incoming value on a
\* collision, every other existing key kept, languages not in the trees
\* untouched) and stores the trees as given for a new namespace; after
\* addNamespace('auth', {en:{login}}) and addNamespace('auth', {en:{logout}})
\* both auth:login and auth:logout resolve.
C16_AddNamespaceMergesAdditively ==
    [][\A name \in TranslateAddNames, trees \in TranslateAddInputs :
          AddNamespace(name, trees) =>
              /\ MergedAdditively(name, trees)
              /\ KeysResolveAfter(name, trees)]_vars

\* auth held login for en and fr; login and logout were added for en: the
\* incoming login replaced the old one, logout is there, fr is as it was
C16_Witness ==
    /\ config.defaultNamespace = NoDefaultNamespace
    /\ NsAuth \in DOMAIN namespaceStore
    /\ DOMAIN namespaceStore[NsAuth] = {En, Fr}
    /\ namespaceStore[NsAuth][En] =
          Obj((SegHello :> Str(TxtLogout)) @@ (SegKey :> Str(TxtLogout)))
    /\ namespaceStore[NsAuth][Fr] = Obj(SegHello :> Str(TxtFrench))
    /\ query.op = "translate"
    /\ query.key = NsAuth \o <<":">> \o SegKey
    /\ query.lang = En
    /\ query.result = Str(TxtLogout)

\* A second engine constructed from the same configuration object and never
\* operated on: the constructor puts the records of config.namespaces
\* themselves into its registry, so what it holds for a name is what the
\* configuration object holds for it now.
OtherEngineStore == config.namespaces

\* what the second engine resolves name:path to in lang
OtherEngineValue(name, lang, path) ==
    IF name \in DOMAIN OtherEngineStore
    THEN LET nsData == OtherEngineStore[name]
         IN Coalesce(GetNestedValue(Lookup(nsData, lang), path),
                     GetNestedValue(Lookup(nsData, config.defaultLanguage), path))
    ELSE Undefined

\* C17: engines share no state and the configuration is not mutated after
\* construction: after an operation on one engine the results of a second
\* engine, also one constructed from the same configuration object, are as
\* before, and the namespaces of the configuration object hold their
\* original contents.
C17_EnginesShareNoState ==
    [][/\ config.namespaces' = config.namespaces
       /\ \A name \in TranslateAddNames, lang \in Languages, path \in Paths :
             OtherEngineValue(name, lang, path)' = OtherEngineValue(name, lang, path)]_vars

\* logout was merged into the auth namespace of the configuration: the
\* configuration object holds it
C17_Witness ==
    /\ NsAuth \in sharedWithConfig
    /\ SegKey \in DOMAIN config.namespaces[NsAuth][En].fields
    /\ OtherEngineValue(NsAuth, En, SegKey) = Str(TxtLogout)

----------------------------------------------------------------------------
\* Properties of translate against the loads

\* the step in which a load of the pair fulfils
LoadFulfils(name, lang) ==
    LET key == CacheKey(name, lang)
    IN /\ key \in DOMAIN promises
       /\ \E n \in 1..Len(promises[key]) :
             /\ promises[key][n].state = "pending"
             /\ promises'[key][n].state = "fulfilled"

\* Of a lazy namespace without data every key is returned literally, a load in
\* flight or not; when a load of the namespace for a language fulfils, the
\* keys of the loaded tree translate to its values; and a text the namespace
\* holds for a language is what translate returns for that language.
TranslateUsesResidentData(names) ==
    \A name \in names : \A lang \in Languages :
       /\ (name \in DOMAIN loaders /\ name \notin DOMAIN namespaceStore) =>
             \A path \in Paths :
                Translate(NamespacedKey(name, path), NoParams, lang) =
                   Str(NamespacedKey(name, path))
       /\ LoadFulfils(name, lang) =>
             \A path \in DOMAIN LoaderTree(lang).fields :
                Translate(NamespacedKey(name, path), NoParams, lang)' =
                   LoaderTree(lang).fields[path]
       /\ \A path \in Paths :
             InNamespace(name, lang, path).kind = "string" =>
                Translate(NamespacedKey(name, path), NoParams, lang) =
                   InNamespace(name, lang, path)

\* C18: translate uses only resident data: for a lazy namespace without
\* data, translate('ns:key') returns the literal key at every moment before
\* a load of ns has completed, also while the load is in flight, and after
\* loadNamespace(ns, lang) has resolved or addNamespace has returned it
\* returns the value from that data until the namespace is removed or the
\* key is overwritten.
C18_TranslateUsesResidentData == [][TranslateUsesResidentData(NamespaceNames)]_vars

\* the lazy namespace was loaded for en, and its key translates
C18_Witness ==
    /\ CacheKey(NsLazy, En) \in loadedSet
    /\ NsLazy \in DOMAIN namespaceStore
    /\ Translate(NamespacedKey(NsLazy, SegKey), NoParams, En) = Str(TxtLazyEn)

----------------------------------------------------------------------------
\* Properties of loadNamespaces

\* C19: loadNamespaces(list, lang) starts a load for every listed namespace
\* concurrently and waits for all of them: it fulfils only when every listed
\* namespace is Loaded for lang, it rejects if any of the loaders fails, and
\* it does not settle before every one of the individual loads has settled.
C19_LoadNamespacesWaitsForAll ==
    \A batch \in Batches :
       /\ \A call \in BatchCalls(batch) : call.how = "loaded" \/ call.promise # 0
       /\ BatchOutcome(batch) = "fulfilled" =>
             \A call \in BatchCalls(batch) : call.key \in loadedSet
       /\ (\E call \in BatchCalls(batch) : CallOutcome(call) = "rejected") =>
             BatchOutcome(batch) = "rejected"
       /\ BatchOutcome(batch) # "pending" =>
             \A call \in BatchCalls(batch) : CallOutcome(call) # "pending"

\* a loadNamespaces call of two lazy namespaces has rejected while the load
\* of one of them is still in flight
C19_Witness ==
    \E batch \in Batches :
       /\ BatchOutcome(batch) = "rejected"
       /\ \E call \in BatchCalls(batch) : CallOutcome(call) = "pending"
       /\ \A call \in BatchCalls(batch) : call.how = "started"

----------------------------------------------------------------------------
\* Properties of setLanguage

\* setLanguage(lang) makes lang the current language when the top-level
\* dictionary has an entry for it and leaves the current language as it is
\* otherwise; the registry, the loaders, the loads and the loaded markers
\* stay as they are
SetLanguageChecksTopLevel(langs) ==
    \A lang \in langs :
       SetLanguage(lang) =>
          /\ currentLanguage' =
                IF lang \in DOMAIN config.translations THEN lang ELSE currentLanguage
          /\ UNCHANGED <<namespaceStore, loaders, loadingPromises, loadedSet, promises>>

\* C20: setLanguage(lang) sets the current language to lang when lang has an
\* entry in the top-level translations dictionary; otherwise it is a no-op
\* that leaves the current language unchanged, even if lang has data in some
\* namespace; namespace data, loaders, in-flight loads and loaded markers
\* are unchanged in both cases.
C20_SetLanguageUnknownIsNoOp == [][SetLanguageChecksTopLevel(TranslateLanguageArgs)]_vars

----------------------------------------------------------------------------
\* Properties of the queries as operations

\* C21: the queries change no engine state: after translate (with or
\* without a language override), hasTranslation, getTranslation,
\* isNamespaceLoaded, hasNamespace or getNamespaces the current language, the
\* namespace data, the loaders, the loads in flight and the loaded markers
\* are as before, and no loader has been invoked.
C21_QueriesChangeNoState ==
    [][query' # NoQuery =>
          /\ currentLanguage' = currentLanguage
          /\ namespaceStore' = namespaceStore
          /\ loaders' = loaders
          /\ loadingPromises' = loadingPromises
          /\ loadedSet' = loadedSet
          /\ promises' = promises
          /\ config' = config]_vars

\* translate with the override 'en' was asked with another language current
\* and a load in flight
C21_Witness ==
    /\ query.op = "translate"
    /\ query.lang = En
    /\ currentLanguage = Es
    /\ query.key = SegHello
    /\ query.result = Str(TxtEntrar)
    /\ DOMAIN loadingPromises # {}

----------------------------------------------------------------------------
\* Properties of the registry's queries

\* C22: hasNamespace(n) is true exactly when n has data in the registry (is
\* in getNamespaces()) or a loader is registered for n; getNamespaces() lists
\* exactly the namespaces with data, so one with only a loader is not
\* listed; removeNamespace(n) does not unregister the loader of n, so
\* hasNamespace(n) stays true after the removal when a loader exists.
C22_HasNamespaceDataOrLoader ==
    [][\A n \in NamespaceNames \cup {NsAuth, NsUnknown} :
          /\ HasNamespace(n) <=> (n \in GetNamespaces \/ LoaderOf(n) # "undefined")
          /\ n \in GetNamespaces <=> n \in DOMAIN namespaceStore
          /\ (LoaderOf(n) # "undefined" /\ n \notin DOMAIN namespaceStore) =>
                (HasNamespace(n) /\ n \notin GetNamespaces)
          /\ RemoveNamespace(n) =>
                /\ loaders' = loaders
                /\ n \notin GetNamespaces'
                /\ LoaderOf(n) # "undefined" => HasNamespace(n)']_vars

\* the lazy namespace was loaded and then removed: it is not listed, and
\* hasNamespace is true through its loader
C22_Witness ==
    /\ NsLazy \notin GetNamespaces
    /\ HasNamespace(NsLazy)
    /\ \E key \in DOMAIN promises : \E n \in 1..Len(promises[key]) :
          promises[key][n].namespace = NsLazy /\ promises[key][n].state = "fulfilled"
    /\ \A key \in DOMAIN promises : Pending(key) = {}

\* translate takes the key for missing: translation === undefined ||
\* translation === null
TreatedAsMissing == Resolved = Undefined \/ Resolved = Null

\* C23: hasTranslation(key, lang) makes the resolution translate makes and
\* is true exactly when it finds a value: whenever hasTranslation is false,
\* translate and getTranslation return the key, and whenever translate
\* treats the key as missing, hasTranslation is false.
C23_HasTranslationAgreesWithTranslate ==
    /\ query.op \in {"translate", "getTranslation"} =>
          (~HasTranslation(query.key, query.lang) => query.result = Str(query.key))
    /\ query.op = "translate" =>
          (TreatedAsMissing => ~HasTranslation(query.key, query.lang))
    /\ query.op = "hasTranslation" => (query.result <=> ~TreatedAsMissing)

----------------------------------------------------------------------------
\* Properties of the loads against the current language

\* A call is for the language given or else the language current at the
\* call, and starts at most one load, of its own pair; when the load of a
\* pair fulfils, the loader's tree is stored under the pair's language and
\* the pair alone becomes Loaded, whatever the current language is by then.
LoadKeepsItsLanguage(names) ==
    /\ \A call \in NewCalls :
          /\ call.lang \in (LoadLangArgs \ {NoLang}) \cup {currentLanguage}
          /\ call.key = CacheKey(call.namespace, call.lang)
          /\ \A load \in NewLoads :
                load[1] = call.key /\ promises'[load[1]][load[2]].lang = call.lang
    /\ \A name \in names : \A lang \in Languages :
          LoadFulfils(name, lang) =>
             /\ loadedSet' = loadedSet \cup {CacheKey(name, lang)}
             /\ name \in DOMAIN namespaceStore'
             /\ lang \in DOMAIN namespaceStore'[name]
             /\ \A k \in DOMAIN LoaderTree(lang).fields :
                   InNamespace(name, lang, k)' = LoaderTree(lang).fields[k]
             /\ \A other \in Languages \ {lang} :
                   InNamespace(name, other, SegKey)' = InNamespace(name, other, SegKey)
             /\ currentLanguage' = currentLanguage

\* C24: a loadNamespace(ns) call without language targets the language
\* current at the call: when the loader resolves, the data is stored under
\* that language and exactly that pair becomes Loaded, even if setLanguage
\* changed the language while the load was in flight; loads of a namespace
\* for two languages are independent.
C24_LoadKeepsItsLanguage == [][LoadKeepsItsLanguage(NamespaceNames)]_vars

\* a load started while es was current has fulfilled with en current: the
\* pair of es is Loaded, the pair of en is not
C24_Witness ==
    /\ currentLanguage = En
    /\ CacheKey(NsLazy, Es) \in loadedSet
    /\ CacheKey(NsLazy, En) \notin loadedSet
    /\ InNamespace(NsLazy, Es, SegKey) = Str(TxtLazyEs)
    /\ InNamespace(NsLazy, En, SegKey) = Undefined

\* C25: a successful load of (ns, lang) into a namespace that already holds
\* data merges through addNamespace: the loader's top-level keys are stored
\* for lang and win on a collision, the existing keys of lang the loader did
\* not return keep their values, and the trees of the other languages of ns
\* are unchanged.
C25_LoadMergesIntoExistingData ==
    [][\A name \in {NsLazy, NsAuth} : \A lang \in Languages :
          LoadFulfils(name, lang) =>
             MergedAdditively(name, (lang :> LoaderTree(lang)))]_vars

\* the namespace of the configuration was loaded for en: the loader's login
\* replaced the old one, its new key is there, the group it did not return
\* and the tree of es are as they were
C25_Witness ==
    /\ CacheKey(NsAuth, En) \in loadedSet
    /\ CacheKey(NsAuth, Es) \notin loadedSet
    /\ InNamespace(NsAuth, En, SegHello) = Str(TxtLazyEn)
    /\ InNamespace(NsAuth, En, SegKey) = Str(TxtLazyEn)
    /\ InNamespace(NsAuth, En, PathNavHome) = Str(TxtHome)
    /\ namespaceStore[NsAuth][Es] = LazySeed[Es]

----------------------------------------------------------------------------
\* Properties of the nested-path resolver

\* the place of the last "." of a key, 0 when it has none
LastDot(key) ==
    IF \E i \in 1..Len(key) : key[i] = "."
    THEN CHOOSE i \in 1..Len(key) : key[i] = "." /\ \A j \in (i + 1)..Len(key) : key[j] # "."
    ELSE 0

\* the path without its last segment
ParentPath(key) == SubSeq(key, 1, LastDot(key) - 1)

\* the key of the query continues past a string leaf: wherever its parent
\* path is found, for the language or the default language, in the default
\* namespace or the top-level dictionary, it is a string
PastStringLeaf ==
    /\ query.op \in {"translate", "getTranslation", "hasTranslation"}
    /\ ~HasColon(query.key)
    /\ LastDot(query.key) > 1
    /\ LET found == {v \in {DefaultNamespaceTiers(ParentPath(query.key),
                                                   TargetLang(query.lang))[i] : i \in 1..4} :
                        v # Undefined}
       IN found # {} /\ \A v \in found : v.kind = "string"

\* C26: the resolver yields 'not found' as soon as a segment is absent or
\* its parent is no nested structure; for a path that continues past a
\* string leaf ('nav.home.x', for every further segment x) translate returns
\* the key and hasTranslation returns false.
C26_PathPastStringLeafIsNotFound ==
    PastStringLeaf =>
       /\ query.op \in {"translate", "getTranslation"} => query.result = Str(query.key)
       /\ query.op = "hasTranslation" => query.result = FALSE

----------------------------------------------------------------------------
\* Properties of the Loaded markers

C28_RemovalIsDurable ==
    [][\A key \in DOMAIN promises : \A n \in 1..Len(promises[key]) :
          LET load == promises[key][n]
          IN (/\ load.state = "pending"
              /\ promises'[key][n].state = "fulfilled"
              /\ load.removedAfter > 0
              /\ load.removedAfter = CallsFor(load.namespace)
              /\ load.namespace \notin GetNamespaces)
             => /\ load.namespace \notin DOMAIN namespaceStore'
                /\ key \notin loadedSet']_vars

\* a load of a namespace is still running after the namespace was removed, no
\* call having been made for the namespace since
C28_Witness ==
    LET key == CacheKey(NsLazy, En)
    IN /\ NsLazy \notin GetNamespaces
       /\ Len(LoadsOf(key)) = 1
       /\ promises[key][1].state = "pending"
       /\ promises[key][1].removedAfter = 1
       /\ CallsFor(NsLazy) = 1

\* the language codes isNamespaceLoaded is asked with: those in use, and one
\* that contains a colon
PairLangs == Languages \cup {<<"y", ":">> \o En}

\* C29: load state is kept per (namespace, language) pair, whatever the names:
\* a load of a pair that fulfils makes isNamespaceLoaded true for no other
\* pair, and removeNamespace(n) leaves the data and the Loaded markers of
\* every other namespace as they were, for names that hold a ':' or are a
\* prefix of another name too.
C29_LoadStatePerPair ==
    [][/\ \A name \in PairNames : \A lang \in Languages :
             LoadFulfils(name, lang) =>
                \A other \in PairNames : \A l \in PairLangs :
                   (<<other, l>> # <<name, lang>> /\ ~IsNamespaceLoaded(other, l))
                      => ~IsNamespaceLoaded(other, l)'
       /\ \A name \in PairNames :
             RemoveNamespaceDuringLoads(name) =>
                \A other \in PairNames \ {name} :
                   /\ (other \in DOMAIN namespaceStore) = (other \in DOMAIN namespaceStore')
                   /\ other \in DOMAIN namespaceStore
                         => namespaceStore'[other] = namespaceStore[other]
                   /\ \A l \in PairLangs :
                         IsNamespaceLoaded(other, l)' = IsNamespaceLoaded(other, l)]_vars

\* the namespace "z:y" holds the data of its only load, which has fulfilled,
\* and is not marked Loaded
C29_Witness ==
    LET key == CacheKey(NsColon, En)
    IN /\ NsColon \in DOMAIN namespaceStore
       /\ Len(LoadsOf(key)) = 1
       /\ promises[key][1].state = "fulfilled"
       /\ ~IsNamespaceLoaded(NsColon, En)

----------------------------------------------------------------------------
\* Properties of interpolate against the order of its parameters

\* the entries of a parameter map in the opposite order
Reversed(params) ==
    IF params = NoParams THEN NoParams
    ELSE [i \in 1..Len(params) |-> params[Len(params) + 1 - i]]

\* C30: interpolate substitutes the placeholders of the original template
\* only: its result is the same for the entries of the parameter map in the
\* opposite order, and a value that reads as a placeholder is inserted as it
\* is ('{a}' with a: '{b}', b: 'X' yields '{b}' in either order).
C30_InterpolateIgnoresEntryOrder ==
    query.op = "interpolate" =>
        /\ query.result = Interpolate(Str(query.text), Reversed(query.params))
        /\ (/\ query.text = <<"{", "a", "}">>
            /\ Len(query.params) = 2
            /\ \E i \in 1..2 : query.params[i] = Entry(<<"a">>, Str(<<"{", "b", "}">>)))
           => query.result = Str(<<"{", "b", "}">>)

\* interpolate has been called on '{a}' with a: '{b}' before b: 'X'
C30_Witness ==
    /\ query.op = "interpolate"
    /\ query.text = <<"{", "a", "}">>
    /\ query.params = <<Entry(<<"a">>, Str(<<"{", "b", "}">>)), Entry(<<"b">>, Str(TxtValue))>>
    /\ query.result = Str(TxtValue)
====
